---- MODULE Spec2Model ----
(***************************************************************************)
(* The three spreadsheet-to-JSON converters of scripts/:                   *)
(*   convertLUMExcelToJSON.py       (LUM, horizontal triplets)             *)
(*   convertTATExcelToJSON.py       (TAT, named columns)                   *)
(*   convertWorkflowExcelToJSON.py  (IBX workflow, rule summary text)      *)
(*                                                                         *)
(* A text is a sequence of tokens: a word, a single digit, or one of the   *)
(* marks " " (blank), "LF" (line break), "'" (quote), "." and "*"; the    *)
(* arrow of a generated description is the token "ARROW".                  *)
(* A spreadsheet cell is a record [t, s, n]: t = "nan" (empty cell),       *)
(* "str" (text s), "int" (integer n) or "num" (float, n in tenths);        *)
(* t = "none" is the None that row.get returns for a column the sheet      *)
(* does not have.                                                          *)
(***************************************************************************)
EXTENDS Integers, Sequences, FiniteSets, TLC

VARIABLES
    family,          \* which converter runs: "LUM", "TAT" or "IBX"
    table,           \* the rows of the sheet read by pd.read_excel
    pc,              \* "start", "loop", "exit0" (returned), "exit1" (aborted)
    action_col_idx,  \* LUM: the located action column, -1 before
    row_idx,         \* the 1-based number of the next row of the loop
    rules,           \* the rules list
    origin,          \* for each element of rules, the number of its source row
    written,         \* whether the output file has been written
    out_rules,       \* the rules in the written file
    errors,          \* TAT: the rows for which "Error converting row" was printed
    skipped,         \* IBX: the skipped counter
    warned,          \* LUM: whether the missing-boundary warning was printed
    arg,             \* the argument of a function checked on its own
    res              \* its result

vars == <<family, table, pc, action_col_idx, row_idx, rules, origin,
          written, out_rules, errors, skipped, warned, arg, res>>

(***************************************************************************)
(* Bounds of the model.                                                    *)
(***************************************************************************)
MaxRows == 2

(***************************************************************************)
(* Cells and texts.                                                        *)
(***************************************************************************)
NaN == [t |-> "nan", s |-> <<>>, n |-> 0]

PyNone == [t |-> "none", s |-> <<>>, n |-> 0]

StrCell(s) == [t |-> "str", s |-> s, n |-> 0]

IntCell(n) == [t |-> "int", s |-> <<>>, n |-> n]

NumCell(n) == [t |-> "num", s |-> <<>>, n |-> n]

isna(c) == c.t \in {"nan", "none"}

IsWS(tok) == tok \in {" ", "LF"}

RECURSIVE LStrip(_)
LStrip(s) ==
    IF s # <<>> /\ IsWS(Head(s)) THEN LStrip(Tail(s)) ELSE s

RECURSIVE RStrip(_)
RStrip(s) ==
    IF s # <<>> /\ IsWS(s[Len(s)]) THEN RStrip(SubSeq(s, 1, Len(s) - 1)) ELSE s

Strip(s) == RStrip(LStrip(s))

DigitVal ==
    ("0" :> 0) @@ ("1" :> 1) @@ ("2" :> 2) @@ ("3" :> 3) @@ ("4" :> 4) @@
    ("5" :> 5) @@ ("6" :> 6) @@ ("7" :> 7) @@ ("8" :> 8) @@ ("9" :> 9)

IsDigit(tok) == tok \in DOMAIN DigitVal

DigitTok(d) == CHOOSE tok \in DOMAIN DigitVal : DigitVal[tok] = d

RECURSIVE DigitsOf(_)
DigitsOf(n) ==
    IF n < 10 THEN <<DigitTok(n)>> ELSE Append(DigitsOf(n \div 10), DigitTok(n % 10))

RECURSIVE DigitsValue(_)
DigitsValue(s) ==
    IF s = <<>> THEN 0 ELSE 10 * DigitsValue(SubSeq(s, 1, Len(s) - 1)) + DigitVal[s[Len(s)]]

(* str(value) of a cell that is not missing *)
PyStr(c) ==
    CASE c.t = "str" -> c.s
      [] c.t = "int" -> DigitsOf(c.n)
      [] c.t = "num" -> DigitsOf(c.n \div 10) \o <<".">> \o DigitsOf(c.n % 10)
      [] OTHER -> <<"nan">>

LowerMap ==
    ("Action" :> "action") @@ ("ACTION" :> "action") @@ ("Task" :> "task") @@
    ("Type" :> "type") @@ ("Reassign" :> "reassign") @@ ("Set" :> "set") @@
    ("Due" :> "due") @@ ("Reason" :> "reason") @@ ("To" :> "to") @@
    ("Is" :> "is") @@ ("IS" :> "is") @@ ("Not" :> "not") @@ ("NOT" :> "not") @@
    ("In" :> "in") @@ ("The" :> "the") @@ ("Group" :> "group") @@
    ("AND" :> "and") @@ ("And" :> "and") @@ ("INF" :> "inf") @@ ("Inf" :> "inf") @@
    ("Infinity" :> "infinity")

LowerTok(tok) == IF tok \in DOMAIN LowerMap THEN LowerMap[tok] ELSE tok

Lower(s) == [i \in DOMAIN s |-> LowerTok(s[i])]

(***************************************************************************)
(* convertLUMExcelToJSON.py                                                *)
(***************************************************************************)
LUM_FIELD_MAPPINGS ==
    (<<"Outcome", " ", "Status">> :> "REVIEW_OUTCOME_STATUS") @@
    (<<"Outcome", " ", "Status", " ">> :> "REVIEW_OUTCOME_STATUS") @@
    (<<"Outcome", " ", "Reason">> :> "REVIEW_OUTCOME_STATUS_REASON") @@
    (<<"Outcome", " ", " ", "Reason">> :> "REVIEW_OUTCOME_STATUS_REASON") @@
    (<<"Review", " ", "Type">> :> "SERVICE_REVIEW_TYPE") @@
    (<<"Member", " ", "Line", " ", "of", " ", "Business">> :> "ENROLLMENT_LINE_OF_BUSINESS") @@
    (<<"Request", " ", "Type">> :> "REQUEST_TYPE") @@
    (<<"Urgency">> :> "REQUEST_URGENCY") @@
    (<<"Urgency", " ">> :> "REQUEST_URGENCY") @@
    (<<"Treatment", " ", "Type">> :> "SERVICE_TREATMENT_TYPE") @@
    (<<"Member", " ", "State">> :> "MEMBER_STATE") @@
    (<<"Member", " ", "Client">> :> "MEMBER_CLIENT") @@
    (<<"Plan">> :> "ENROLLMENT_PLAN")

LUM_OPERATOR_MAPPINGS ==
    (<<"is", " ", "any", " ", "of">> :> "IN") @@
    (<<"is", " ", "none", " ", "of">> :> "NOT_IN") @@
    (<<"is">> :> "EQUALS") @@
    (<<"is", " ", "not">> :> "NOT_EQUALS")

normalize_field_name(c) == IF isna(c) THEN <<>> ELSE Strip(PyStr(c))

(* value_str.split('\n'), each part stripped, the empty parts dropped *)
RECURSIVE SplitLines(_, _, _)
SplitLines(s, cur, acc) ==
    IF s = <<>>
    THEN IF Strip(cur) # <<>> THEN Append(acc, Strip(cur)) ELSE acc
    ELSE IF Head(s) = "LF"
         THEN SplitLines(Tail(s), <<>>,
                         IF Strip(cur) # <<>> THEN Append(acc, Strip(cur)) ELSE acc)
         ELSE SplitLines(Tail(s), Append(cur, Head(s)), acc)

split_multi_values(c) ==
    IF isna(c) THEN <<>>
    ELSE LET value_str == Strip(PyStr(c)) IN
         IF \E i \in DOMAIN value_str : value_str[i] = "LF"
         THEN SplitLines(value_str, <<>>, <<>>)
         ELSE <<value_str>>

CriteriaStopLabels ==
    { <<"action">>, <<"task", " ", "type">>,
      <<"set", " ", "task", " ", "due", " ", "to">>, <<"task", " ", "reason">> }

(* row.iloc[i] for a 0-based i; the caller checks i < Len(row) *)
iloc(row, i) == row[i + 1]

(* The while loop of parse_criteria_triplets from idx on.  The result is   *)
(* [err, criteria, idx]: err is "none" on return, else the exception.      *)
RECURSIVE TripletLoop(_, _, _, _)
TripletLoop(row, idx, end_idx, criteria) ==
    IF ~(idx < end_idx) \/ idx + 2 >= end_idx
    THEN [err |-> "none", criteria |-> criteria, idx |-> idx]
    ELSE IF idx + 2 >= Len(row)
    THEN [err |-> "IndexError", criteria |-> criteria, idx |-> idx]
    ELSE LET field_name == normalize_field_name(iloc(row, idx))
             operator   == normalize_field_name(iloc(row, idx + 1))
             values     == split_multi_values(iloc(row, idx + 2))
         IN  IF field_name = <<>> \/ Lower(field_name) \in CriteriaStopLabels
             THEN [err |-> "none", criteria |-> criteria, idx |-> idx]
             ELSE IF field_name \notin DOMAIN LUM_FIELD_MAPPINGS
             THEN [err |-> "ValueError", criteria |-> criteria, idx |-> idx]
             ELSE IF operator \notin DOMAIN LUM_OPERATOR_MAPPINGS
             THEN [err |-> "ValueError", criteria |-> criteria, idx |-> idx]
             ELSE TripletLoop(row, idx + 3, end_idx,
                     IF values # <<>>
                     THEN Append(criteria,
                                 [operator |-> LUM_OPERATOR_MAPPINGS[operator],
                                  field    |-> LUM_FIELD_MAPPINGS[field_name],
                                  values   |-> values])
                     ELSE criteria)

parse_criteria_triplets(row, start_idx, end_idx) ==
    TripletLoop(row, start_idx, end_idx, <<>>)

ActionLabelsFirstRow == { <<"action">>, <<"task", " ", "type">> }

ActionLabelsScan == { <<"action">>, <<"reassign", " ", "to">>, <<"task", " ", "type">> }

TaskHeaderType == <<"Task", " ", "Type">>

TaskHeaderReason == <<"Task", " ", "Reason">>

TaskHeaderDue == <<"Set", " ", "Task", " ", "Due", " ", "to">>

ReassignTo == <<"Reassign", " ", "to">>

ReviewRequired == <<"Review", " ", "Required">>

DefaultDaysUntilDue == 3

EmptyDict == [k \in {} |-> k]

(* re.search(r'(\d+)', s): the first contiguous run of digits, <<>> if none *)
RECURSIVE DigitRun(_)
DigitRun(s) ==
    IF s = <<>> \/ ~IsDigit(Head(s)) THEN <<>> ELSE <<Head(s)>> \o DigitRun(Tail(s))

RECURSIVE FirstDigits(_)
FirstDigits(s) ==
    IF s = <<>> THEN <<>>
    ELSE IF IsDigit(Head(s)) THEN DigitRun(s) ELSE FirstDigits(Tail(s))

(* The while loop of parse_actions for a 'Task Type' action.  task_type    *)
(* and task_reason are <<>> while None or empty; days is <<>> while None,  *)
(* else <<n>>.                                                             *)
RECURSIVE TaskLoop(_, _, _, _, _)
TaskLoop(row, idx, task_type, task_reason, days) ==
    IF ~(idx < Len(row))
    THEN [task_type |-> task_type, task_reason |-> task_reason, days |-> days]
    ELSE LET col_value == normalize_field_name(iloc(row, idx)) IN
         IF col_value = <<>>
         THEN TaskLoop(row, idx + 1, task_type, task_reason, days)
         ELSE IF idx + 1 < Len(row)
         THEN LET next_value == normalize_field_name(iloc(row, idx + 1)) IN
              IF col_value = TaskHeaderType
              THEN TaskLoop(row, idx + 2, next_value, task_reason, days)
              ELSE IF col_value = TaskHeaderReason
              THEN TaskLoop(row, idx + 2, task_type, next_value, days)
              ELSE IF col_value = TaskHeaderDue
              THEN TaskLoop(row, idx + 2, task_type, task_reason,
                            IF FirstDigits(next_value) # <<>>
                            THEN <<DigitsValue(FirstDigits(next_value))>>
                            ELSE days)
              ELSE IF task_type = <<>>
              THEN TaskLoop(row, idx + 1, col_value, task_reason, days)
              ELSE IF task_reason = <<>>
              THEN TaskLoop(row, idx + 1, task_type, col_value, days)
              ELSE TaskLoop(row, idx + 1, task_type, task_reason, days)
         ELSE TaskLoop(row, idx + 1, task_type, task_reason, days)

(* parse_actions of the LUM converter: [err, actions] *)
LUM_parse_actions(row, action_start_idx) ==
    IF ~(action_start_idx < Len(row))
    THEN [err |-> "IndexError", actions |-> EmptyDict]
    ELSE LET action_type == normalize_field_name(iloc(row, action_start_idx)) IN
         IF action_type = ReassignTo /\ action_start_idx + 1 < Len(row)
         THEN LET dept_code == normalize_field_name(iloc(row, action_start_idx + 1)) IN
              [err |-> "none",
               actions |-> IF dept_code # <<>>
                           THEN "departmentRouting" :> [departmentCode |-> dept_code]
                           ELSE EmptyDict]
         ELSE IF action_type = TaskHeaderType
         THEN LET t == TaskLoop(row, action_start_idx + 1, <<>>, <<>>, <<>>) IN
              [err |-> "none",
               actions |-> IF t.task_type # <<>>
                           THEN "createTask" :>
                                [taskType |-> t.task_type,
                                 taskReason |-> IF t.task_reason # <<>>
                                                THEN t.task_reason ELSE ReviewRequired,
                                 daysUntilDue |-> IF t.days # <<>> /\ t.days[1] # 0
                                                  THEN t.days[1] ELSE DefaultDaysUntilDue]
                           ELSE EmptyDict]
         ELSE [err |-> "none", actions |-> EmptyDict]

(* field.replace('_', ' ').title() on the canonical fields of the LUM table *)
TitleCase(field) ==
    CASE field = "REVIEW_OUTCOME_STATUS" -> <<"Review", " ", "Outcome", " ", "Status">>
      [] field = "REVIEW_OUTCOME_STATUS_REASON" ->
             <<"Review", " ", "Outcome", " ", "Status", " ", "Reason">>
      [] field = "SERVICE_REVIEW_TYPE" -> <<"Service", " ", "Review", " ", "Type">>
      [] field = "ENROLLMENT_LINE_OF_BUSINESS" ->
             <<"Enrollment", " ", "Line", " ", "Of", " ", "Business">>
      [] field = "REQUEST_TYPE" -> <<"Request", " ", "Type">>
      [] field = "REQUEST_URGENCY" -> <<"Request", " ", "Urgency">>
      [] field = "SERVICE_TREATMENT_TYPE" -> <<"Service", " ", "Treatment", " ", "Type">>
      [] field = "MEMBER_STATE" -> <<"Member", " ", "State">>
      [] field = "MEMBER_CLIENT" -> <<"Member", " ", "Client">>
      [] field = "ENROLLMENT_PLAN" -> <<"Enrollment", " ", "Plan">>

MaxDescCriteria == 3

MaxDescValues == 2

Take(s, n) == SubSeq(s, 1, IF Len(s) < n THEN Len(s) ELSE n)

(* sep.join(parts) *)
RECURSIVE Join(_, _)
Join(parts, sep) ==
    IF parts = <<>> THEN <<>>
    ELSE IF Len(parts) = 1 THEN parts[1]
    ELSE parts[1] \o sep \o Join(Tail(parts), sep)

(* 'is' if c['operator'] == 'IN' else 'is not' *)
desc_operator_text(c) == IF c.operator = "IN" THEN <<"is">> ELSE <<"is", " ", "not">>

(* ', '.join(c['values'][:2]), with '...' appended for a longer list *)
desc_values_text(c) ==
    Join(Take(c.values, MaxDescValues), <<",", " ">>)
    \o (IF Len(c.values) > MaxDescValues THEN <<".", ".", ".">> ELSE <<>>)

(* f"{field} {operator_text} {values_text}" *)
DescPart(c) ==
    TitleCase(c.field) \o <<" ">> \o desc_operator_text(c) \o <<" ">> \o desc_values_text(c)

(* the action parts of the description *)
ActionParts(actions) ==
    (IF "departmentRouting" \in DOMAIN actions
     THEN << <<"Route", " ", "to", " ">> \o actions["departmentRouting"].departmentCode >>
     ELSE <<>>)
    \o
    (IF "createTask" \in DOMAIN actions
     THEN << <<"Create", " ">> \o actions["createTask"].taskType \o <<" ", "task">> >>
     ELSE <<>>)

(* generate_rule_description: the parts joined by '; ' and ' & ' around   *)
(* the arrow, written "ARROW"                                              *)
generate_rule_description(criteria, actions) ==
    LET shown == Take(criteria, MaxDescCriteria) IN
    Join([i \in 1..Len(shown) |-> DescPart(shown[i])], <<";", " ">>)
    \o <<" ", "ARROW", " ">>
    \o Join(ActionParts(actions), <<" ", "&", " ">>)

CodeWidth == 3

(* str(n).zfill(width) *)
RECURSIVE zfill(_, _)
zfill(s, width) == IF Len(s) < width THEN zfill(<<"0">> \o s, width) ELSE s

(* A code without the padding: what the rule code must not be *)
rule_code_unpadded(n) == <<"LUM">> \o DigitsOf(n)

(* f"LUM{str(row_idx + 1).zfill(3)}" for the 1-based row number n *)
rule_code(n) == <<"LUM">> \o zfill(DigitsOf(n), CodeWidth)

DefaultWeight == 100

DefaultActionCol == 13

BoundaryScanRows == 3

Min(a, b) == IF a < b THEN a ELSE b

CellLabel(c) == Lower(normalize_field_name(c))

(* The two searches for the action column; -1 is written NoCol *)
FirstRowHits(tbl) ==
    { i \in 0..(Len(tbl[1]) - 1) : CellLabel(iloc(tbl[1], i)) \in ActionLabelsFirstRow }

ScanHits(tbl) ==
    { i \in 0..(Len(tbl[1]) - 1) :
        \E r \in 1..Min(BoundaryScanRows, Len(tbl)) :
            CellLabel(iloc(tbl[r], i)) \in ActionLabelsScan }

SetMin(S) == CHOOSE x \in S : \A y \in S : x <= y

BoundaryFound(tbl) == FirstRowHits(tbl) # {} \/ ScanHits(tbl) # {}

locate_action_col(tbl) ==
    IF FirstRowHits(tbl) # {} THEN SetMin(FirstRowHits(tbl))
    ELSE IF ScanHits(tbl) # {} THEN SetMin(ScanHits(tbl))
    ELSE DefaultActionCol

(* A list that grows at the front: what rules.append(rule) must not be *)
PrependRule(rs, r) == <<r>> \o rs

(* rules.append(rule) *)
AppendRule(rs, r) == Append(rs, r)

(* A row loop that skips a row whose decoding raised instead of exiting:  *)
(* what the handlers of lines 323-332 must not be                          *)
LUM_convert_row_lenient(row, n, boundary) ==
    LET c == parse_criteria_triplets(row, 0, boundary)
        a == LUM_parse_actions(row, boundary)
    IN  IF c.err # "none" \/ c.criteria = <<>> \/ a.err # "none"
        THEN [outcome |-> "skip", rule |-> <<>>]
        ELSE [outcome |-> "rule",
              rule |-> [code |-> rule_code(n),
                        ruleDesc |-> generate_rule_description(c.criteria, a.actions),
                        standardFieldCriteria |-> c.criteria,
                        customFieldCriteria |-> <<>>,
                        isActive |-> TRUE,
                        weight |-> DefaultWeight,
                        actions |-> a.actions]]

(* One pass of the row loop of the LUM convert_excel_to_json on the row     *)
(* numbered n (1-based): [outcome, rule], outcome "rule", "skip" or "exit1" *)
LUM_convert_row(row, n, boundary) ==
    LET c == parse_criteria_triplets(row, 0, boundary) IN
    IF c.err # "none" THEN [outcome |-> "exit1", rule |-> <<>>]
    ELSE IF c.criteria = <<>> THEN [outcome |-> "skip", rule |-> <<>>]
    ELSE LET a == LUM_parse_actions(row, boundary) IN
         IF a.err # "none" THEN [outcome |-> "exit1", rule |-> <<>>]
         ELSE [outcome |-> "rule",
               rule |-> [code |-> rule_code(n),
                         ruleDesc |-> generate_rule_description(c.criteria, a.actions),
                         standardFieldCriteria |-> c.criteria,
                         customFieldCriteria |-> <<>>,
                         isActive |-> TRUE,
                         weight |-> DefaultWeight,
                         actions |-> a.actions]]

(***************************************************************************)
(* convertTATExcelToJSON.py                                                *)
(***************************************************************************)
TAT_FIELD_MAPPINGS ==
    << <<"TX_TYPE", "SERVICE_TREATMENT_TYPE">>,
       <<"URGENCY", "REQUEST_URGENCY">>,
       <<"REVIEW_TYPE", "SERVICE_REVIEW_TYPE">>,
       <<"REQUEST_TYPE", "REQUEST_TYPE">>,
       <<"CLIENT", "MEMBER_CLIENT">>,
       <<"LOB", "ENROLLMENT_LINE_OF_BUSINESS">>,
       <<"PLAN_TYPE", "ENROLLMENT_PLAN">>,
       <<"TX_SETTING", "REQUEST_TREATMENT_SETTING">>,
       <<"STATUS", "REVIEW_OUTCOME_STATUS">>,
       <<"STATUS_REASON", "REVIEW_OUTCOME_STATUS_REASON">> >>

UNITS_MAPPING ==
    (<<"HR">> :> "HOURS") @@ (<<"BD">> :> "BUSINESS_DAYS") @@ (<<"CD">> :> "CALENDAR_DAYS")

SOURCE_DATE_MAPPING ==
    (<<"NOTIFYDATE">> :> "NOTIFICATION_DATE_TIME") @@
    (<<"STATUSCHANGEDATE">> :> "STATUS_CHANGE_DATE_TIME") @@
    (<<"REQUESTDATE">> :> "REQUEST_DATE_TIME") @@
    (<<"RECEIPTDATE">> :> "RECEIPT_DATE_TIME") @@
    (<<"RECEIVEDDATE">> :> "RECEIVED_DATE_TIME")

(* dict.get(cell, default) on a table keyed by texts *)
MapGet(map, c, default) ==
    IF c.t = "str" /\ c.s \in DOMAIN map THEN map[c.s] ELSE default

TAT_is_valid_value(c) ==
    /\ ~isna(c)
    /\ ~(c.t = "str" /\ Strip(c.s) \in { <<"*">>, <<"[NULL]">>, <<>> })

(* row.get(col): None for a column the sheet does not have *)
Get(row, col) == IF col \in DOMAIN row THEN row[col] ELSE PyNone

AllDigits(s) == s # <<>> /\ \A i \in DOMAIN s : IsDigit(s[i])

(* int(x): [ok, v]; ok is FALSE where int raises ValueError *)
PyInt(c) ==
    CASE c.t = "int" -> [ok |-> TRUE, v |-> c.n]
      [] c.t = "num" -> [ok |-> TRUE, v |-> c.n \div 10]
      [] c.t = "str" -> IF AllDigits(Strip(c.s))
                        THEN [ok |-> TRUE, v |-> DigitsValue(Strip(c.s))]
                        ELSE [ok |-> FALSE, v |-> 0]
      [] OTHER -> [ok |-> FALSE, v |-> 0]

(* value == 1 *)
EqualsOne(c) == (c.t = "int" /\ c.n = 1) \/ (c.t = "num" /\ c.n = 10)

(* s.split(sep): the parts between the separators, empty parts kept *)
RECURSIVE SplitOn(_, _, _, _)
SplitOn(s, seps, cur, acc) ==
    IF s = <<>> THEN Append(acc, cur)
    ELSE IF Head(s) \in seps THEN SplitOn(Tail(s), seps, <<>>, Append(acc, cur))
    ELSE SplitOn(Tail(s), seps, Append(cur, Head(s)), acc)

NonAlphaToks ==
    DOMAIN DigitVal \cup {" ", "LF", ".", ":", ",", "*", "'", "DQ", "-", "2025-12-25", "2026-01-01"}

IsAlphaTok(tok) == tok \notin NonAlphaToks

NoneText == <<"<None>">>

TimeWidth == 2

(* value.replace(',', ' ').split(), without the '*' and '[NULL]' parts *)
parse_holiday_dates(c) ==
    IF ~TAT_is_valid_value(c) THEN <<>>
    ELSE IF c.t = "str"
    THEN LET parts == SplitOn(c.s, {",", " ", "LF"}, <<>>, <<>>)
             Keep(d) == d # <<>> /\ d \notin { <<"*">>, <<"[NULL]">> }
         IN  SelectSeq(parts, Keep)
    ELSE <<>>

(* The criteria loop of convert_row_to_tat_rule over FIELD_MAPPINGS[k..] *)
RECURSIVE TATCriteria(_, _)
TATCriteria(row, k) ==
    IF k > Len(TAT_FIELD_MAPPINGS) THEN <<>>
    ELSE LET excel_col == TAT_FIELD_MAPPINGS[k][1]
             standard_field == TAT_FIELD_MAPPINGS[k][2]
         IN  (IF excel_col \in DOMAIN row /\ TAT_is_valid_value(row[excel_col])
              THEN << [field |-> standard_field,
                       values |-> << Strip(PyStr(row[excel_col])) >>] >>
              ELSE <<>>)
             \o TATCriteria(row, k + 1)

TATRequiredCols ==
    {"DUE_DATE_AUTO_CALC_RULE_DESC", "ACTIVE", "WEIGHT", "DUE_DATE", "DUE_DATE_UNITS",
     "DATE_TO_CALC_FROM"}

TATDefaultWeight == 100

TATDefaultUnits == 72

(* convert_row_to_tat_rule: [err, rule]; err is "none" on return *)
convert_row_to_tat_rule(row) ==
    IF ~(TATRequiredCols \subseteq DOMAIN row)
    THEN [err |-> "KeyError", rule |-> <<>>]
    ELSE IF ~isna(row["WEIGHT"]) /\ ~PyInt(row["WEIGHT"]).ok
    THEN [err |-> "ValueError", rule |-> <<>>]
    ELSE IF ~isna(row["DUE_DATE"]) /\ ~PyInt(row["DUE_DATE"]).ok
    THEN [err |-> "ValueError", rule |-> <<>>]
    ELSE IF TAT_is_valid_value(Get(row, "OFFSET_VALUE")) /\ ~PyInt(row["OFFSET_VALUE"]).ok
    THEN [err |-> "ValueError", rule |-> <<>>]
    ELSE LET due_time == Strip(PyStr(Get(row, "DUE_DATE_TIME")))
             parts == SplitOn(due_time, {":"}, <<>>, <<>>)
             skip_holidays == Get(row, "SKIP_HOLIDAY_DATES")
             skip_holidays_str == Strip(PyStr(skip_holidays))
             is_category == \E i \in DOMAIN skip_holidays_str : IsAlphaTok(skip_holidays_str[i])
             auto_extend == TAT_is_valid_value(Get(row, "AUTO_EXTEND"))
                            /\ EqualsOne(row["AUTO_EXTEND"])
         IN
         [err |-> "none",
          rule |->
            [ruleDesc |-> row["DUE_DATE_AUTO_CALC_RULE_DESC"],
             isActive |-> EqualsOne(row["ACTIVE"]),
             weight |-> IF ~isna(row["WEIGHT"]) THEN PyInt(row["WEIGHT"]).v
                        ELSE TATDefaultWeight,
             units |-> IF ~isna(row["DUE_DATE"]) THEN PyInt(row["DUE_DATE"]).v
                       ELSE TATDefaultUnits,
             unitsOfMeasure |-> MapGet(UNITS_MAPPING, row["DUE_DATE_UNITS"], "HOURS"),
             sourceDateTimeField |-> MapGet(SOURCE_DATE_MAPPING, row["DATE_TO_CALC_FROM"],
                                            "NOTIFICATION_DATE_TIME"),
             standardFieldCriteria |-> TATCriteria(row, 1),
             customFieldCriteria |-> NoneText,
             dueTime |-> IF TAT_is_valid_value(Get(row, "DUE_DATE_TIME")) /\ Len(parts) > 1
                         THEN zfill(parts[1], TimeWidth) \o <<":">> \o zfill(parts[2], TimeWidth)
                         ELSE NoneText,
             holidayDates |-> IF TAT_is_valid_value(skip_holidays) /\ ~is_category
                              THEN parse_holiday_dates(skip_holidays) ELSE <<>>,
             holidayCategory |-> IF TAT_is_valid_value(skip_holidays) /\ is_category
                                 THEN skip_holidays_str ELSE NoneText,
             holidayOffset |-> IF TAT_is_valid_value(Get(row, "OFFSET_VALUE"))
                               THEN << PyInt(row["OFFSET_VALUE"]).v >> ELSE <<>>,
             clinicalsRequestedResponseThresholdHours |-> NoneText,
             dateOperator |-> IF TAT_is_valid_value(Get(row, "DATE_OPERATOR"))
                              THEN Strip(PyStr(row["DATE_OPERATOR"])) ELSE NoneText,
             autoExtend |-> auto_extend,
             extendStatusReason |->
                 IF auto_extend /\ TAT_is_valid_value(Get(row, "EXTEND_STATUS_RSN"))
                 THEN Strip(PyStr(row["EXTEND_STATUS_RSN"])) ELSE NoneText]]

(* rule['ruleDesc'][:50] raises TypeError unless ruleDesc is a text *)
Subscriptable(c) == c.t = "str"

(***************************************************************************)
(* convertWorkflowExcelToJSON.py                                           *)
(***************************************************************************)
IBX_FIELD_MAPPINGS ==
    (<<"Member", " ", "client">> :> "MEMBER_CLIENT") @@
    (<<"Review", " ", "Type">> :> "SERVICE_REVIEW_TYPE") @@
    (<<"Treatment", " ", "type">> :> "SERVICE_TREATMENT_TYPE") @@
    (<<"Urgency">> :> "REQUEST_URGENCY") @@
    (<<"Outcome", " ", "Status", " ", "Reason">> :> "REVIEW_OUTCOME_STATUS_REASON") @@
    (<<"Request", " ", "Bed", " ", "Type">> :> "REQUEST_TREATMENT_SETTING") @@
    (<<"Source", " ", "System">> :> "REQUEST_ORIGINATING_SYSTEM_SOURCE") @@
    (<<"CID">> :> "ENROLLMENT_GROUP_ID") @@
    (<<"Member", " ", "Group", " ", "ID">> :> "ENROLLMENT_GROUP_ID") @@
    (<<"Request", " ", "Type">> :> "REQUEST_TYPE") @@
    (<<"Member", " ", "State">> :> "MEMBER_STATE") @@
    (<<"Treatment", " ", "Type">> :> "SERVICE_TREATMENT_TYPE") @@
    (<<"LOB">> :> "ENROLLMENT_LINE_OF_BUSINESS") @@
    (<<"Plan">> :> "ENROLLMENT_PLAN") @@
    (<<"Service", " ", "Code">> :> "SERVICE_CODE") @@
    (<<"Diagnosis", " ", "Code">> :> "REQUEST_DIAGNOSIS_CODE") @@
    (<<"Task", " ", "Type">> :> "REQUEST_CLASSIFICATION") @@
    (<<"Task", " ", "Reason">> :> "REQUEST_STATUS") @@
    (<<"Task", " ", "Outcome">> :> "REVIEW_OUTCOME_STATUS")

IBX_OPERATOR_MAPPINGS ==
    (<<"is">> :> "EQUALS") @@
    (<<"is", " ", "not">> :> "NOT_IN") @@
    (<<"is", " ", "in", " ", "the", " ", "group">> :> "IN") @@
    (<<"is", " ", "not", " ", "in", " ", "the", " ", "group">> :> "NOT_IN")

IBX_is_valid_value(c) ==
    /\ ~isna(c)
    /\ ~(c.t = "str" /\ Strip(c.s) \in { <<>>, <<"(null)">> })

(* The alternation with the shortest phrase first: the order the pattern  *)
(* must not have                                                           *)
OperatorPhrasesShortestFirst ==
    << <<"is">>,
       <<"is", " ", "not">>,
       <<"is", " ", "in", " ", "the", " ", "group">>,
       <<"is", " ", "not", " ", "in", " ", "the", " ", "group">> >>

(* The alternation of the clause pattern, in the order the pattern lists it *)
OperatorPhrases ==
    << <<"is", " ", "not", " ", "in", " ", "the", " ", "group">>,
       <<"is", " ", "in", " ", "the", " ", "group">>,
       <<"is", " ", "not">>,
       <<"is">> >>

Quotes == {"'", "DQ"}

RECURSIVE WSRunLen(_)
WSRunLen(s) == IF s # <<>> /\ IsWS(Head(s)) THEN 1 + WSRunLen(Tail(s)) ELSE 0

Drop(s, n) == SubSeq(s, n + 1, Len(s))

HasLF(s) == \E i \in DOMAIN s : s[i] = "LF"

StartsWithNoCase(s, p) == Len(s) >= Len(p) /\ Lower(SubSeq(s, 1, Len(p))) = p

(* ['"]?(.+?)['"]?\s*$ on the text r that follows the operator phrase and  *)
(* its blanks; r has no trailing blank.  '.' matches no line break.        *)
ValueMatch(r) ==
    IF r = <<>> THEN [ok |-> FALSE, value |-> <<>>]
    ELSE LET body == IF Head(r) \in Quotes /\ Len(r) >= 2 THEN Tail(r) ELSE r
             value == IF Len(body) >= 2 /\ body[Len(body)] \in Quotes
                      THEN SubSeq(body, 1, Len(body) - 1) ELSE body
         IN  [ok |-> ~HasLF(value), value |-> value]

(* \s+(phrase k or a later one)\s+<value> on the text a that follows the   *)
(* captured field                                                          *)
RECURSIVE PhraseMatch(_, _)
PhraseMatch(a, k) ==
    IF k > Len(OperatorPhrases) THEN [ok |-> FALSE, op |-> <<>>, value |-> <<>>]
    ELSE LET p == OperatorPhrases[k]
             after == Drop(a, WSRunLen(a))
             rest == Drop(after, Len(p))
             v == ValueMatch(Drop(rest, WSRunLen(rest)))
         IN  IF WSRunLen(a) >= 1 /\ StartsWithNoCase(after, p) /\ WSRunLen(rest) >= 1 /\ v.ok
             THEN [ok |-> TRUE, op |-> SubSeq(after, 1, Len(p)), value |-> v.value]
             ELSE PhraseMatch(a, k + 1)

(* re.match of the clause pattern: the lazy field capture tries the        *)
(* prefixes of part from the shortest on; [ok, field, op, value]           *)
RECURSIVE ClauseMatch(_, _)
ClauseMatch(part, i) ==
    IF i > Len(part) \/ part[i] = "LF"
    THEN [ok |-> FALSE, field |-> <<>>, op |-> <<>>, value |-> <<>>]
    ELSE LET m == PhraseMatch(Drop(part, i), 1) IN
         IF m.ok
         THEN [ok |-> TRUE, field |-> SubSeq(part, 1, i), op |-> m.op, value |-> m.value]
         ELSE ClauseMatch(part, i + 1)

RECURSIVE LStripQuotes(_)
LStripQuotes(s) == IF s # <<>> /\ Head(s) \in Quotes THEN LStripQuotes(Tail(s)) ELSE s

RECURSIVE RStripQuotes(_)
RStripQuotes(s) ==
    IF s # <<>> /\ s[Len(s)] \in Quotes THEN RStripQuotes(SubSeq(s, 1, Len(s) - 1)) ELSE s

StripQuotes(s) == RStripQuotes(LStripQuotes(s))

(* re.split(r'\s+AND\s+', summary, flags=re.IGNORECASE) *)
RECURSIVE SplitAnd(_, _, _)
SplitAnd(s, cur, acc) ==
    IF s = <<>> THEN Append(acc, cur)
    ELSE LET after == Drop(s, WSRunLen(s)) IN
         IF /\ IsWS(Head(s))
            /\ after # <<>>
            /\ LowerTok(Head(after)) = "and"
            /\ WSRunLen(Tail(after)) >= 1
         THEN SplitAnd(Drop(Tail(after), WSRunLen(Tail(after))), <<>>, Append(acc, cur))
         ELSE SplitAnd(Tail(s), Append(cur, Head(s)), acc)

(* The body of the loop of parse_rule_summary for one part: the criteria   *)
(* it appends, <<>> or one criterion                                       *)
parse_clause(raw_part) ==
    LET part == Strip(raw_part)
        m == ClauseMatch(part, 1)
        field_name == Strip(m.field)
        operator_text == Lower(Strip(m.op))
        values_text == StripQuotes(Strip(m.value))
    IN  IF part = <<>> \/ ~m.ok \/ field_name \notin DOMAIN IBX_FIELD_MAPPINGS
        THEN <<>>
        ELSE << [field |-> IBX_FIELD_MAPPINGS[field_name],
                 operator |-> IF operator_text \in DOMAIN IBX_OPERATOR_MAPPINGS
                              THEN IBX_OPERATOR_MAPPINGS[operator_text] ELSE "IN",
                 values |-> <<values_text>>] >>

RECURSIVE ClauseCriteria(_, _)
ClauseCriteria(parts, k) ==
    IF k > Len(parts) THEN <<>>
    ELSE parse_clause(parts[k]) \o ClauseCriteria(parts, k + 1)

(* A decoder that gives up the whole summary for one clause it cannot     *)
(* decode: what the lenient strategy must not be                           *)
parse_rule_summary_strict(summary) ==
    LET parts == SplitAnd(summary, <<>>, <<>>) IN
    IF summary = <<>> \/ \E k \in DOMAIN parts : parse_clause(parts[k]) = <<>>
    THEN <<>>
    ELSE ClauseCriteria(parts, 1)

parse_rule_summary(summary) ==
    IF summary = <<>> THEN <<>>
    ELSE ClauseCriteria(SplitAnd(summary, <<>>, <<>>), 1)

IsYes(c) == c.t = "str" /\ c.s = <<"Yes">>

TriggerColumns ==
    << <<"Create Request", "CREATE_REQUEST">>, <<"Edit Request", "EDIT_REQUEST">>,
       <<"Extend Request", "EXTEND_REQUEST">>, <<"Create Service", "CREATE_SERVICE">>,
       <<"Edit Service", "EDIT_SERVICE">>, <<"Extend Service", "EXTEND_SERVICE">>,
       <<"Save Questionnaire", "SAVE_QUESTIONNAIRE">> >>

RECURSIVE TriggerEvents(_, _)
TriggerEvents(row, k) ==
    IF k > Len(TriggerColumns) THEN <<>>
    ELSE (IF IsYes(Get(row, TriggerColumns[k][1])) THEN <<TriggerColumns[k][2]>> ELSE <<>>)
         \o TriggerEvents(row, k + 1)

parse_trigger_events(row) == TriggerEvents(row, 1)

AllDigitsOrEmpty(s) == \A i \in DOMAIN s : IsDigit(s[i])

(* int(float(x)): [res, v]; res is "ok", "ValueError" (also for a NaN) or  *)
(* "OverflowError" (an infinity)                                           *)
IntOfFloat(c) ==
    CASE c.t = "int" -> [res |-> "ok", v |-> c.n]
      [] c.t = "num" -> [res |-> "ok", v |-> c.n \div 10]
      [] c.t = "str" ->
           LET s == Strip(c.s)
               parts == SplitOn(s, {"."}, <<>>, <<>>)
           IN  IF Lower(s) \in { <<"inf">>, <<"infinity">> }
               THEN [res |-> "OverflowError", v |-> 0]
               ELSE IF /\ Len(parts) <= 2
                       /\ \A k \in DOMAIN parts : AllDigitsOrEmpty(parts[k])
                       /\ \E k \in DOMAIN parts : parts[k] # <<>>
               THEN [res |-> "ok", v |-> DigitsValue(parts[1])]
               ELSE [res |-> "ValueError", v |-> 0]
      [] OTHER -> [res |-> "ValueError", v |-> 0]

(* A createTask block that fills a missing reason as the LUM converter     *)
(* does, not with the empty string                                         *)
IBX_create_task_lum_defaults(row) ==
    LET task_type == Get(row, "Task Type")
        task_reason == Get(row, "Task Reason")
        days == IntOfFloat(Get(row, "Days"))
    IN  [taskType |-> IF IBX_is_valid_value(task_type) THEN Strip(PyStr(task_type)) ELSE <<>>,
         taskReason |-> IF IBX_is_valid_value(task_reason) THEN Strip(PyStr(task_reason))
                        ELSE <<"Review", " ", "Required">>]
        @@ (IF IBX_is_valid_value(Get(row, "Days")) /\ days.res = "ok" /\ days.v > 0
            THEN "daysUntilDue" :> days.v ELSE EmptyDict)
        @@ (IF IBX_is_valid_value(Get(row, "Task Owner"))
            THEN "taskOwner" :> Strip(PyStr(row["Task Owner"])) ELSE EmptyDict)
        @@ (IF IBX_is_valid_value(Get(row, "Auto-Close")) /\ IsYes(row["Auto-Close"])
            THEN "autoClose" :> TRUE ELSE EmptyDict)

(* The createTask block of parse_actions *)
IBX_create_task(row) ==
    LET task_type == Get(row, "Task Type")
        task_reason == Get(row, "Task Reason")
        days == IntOfFloat(Get(row, "Days"))
    IN  [taskType |-> IF IBX_is_valid_value(task_type) THEN Strip(PyStr(task_type)) ELSE <<>>,
         taskReason |-> IF IBX_is_valid_value(task_reason) THEN Strip(PyStr(task_reason)) ELSE <<>>]
        @@ (IF IBX_is_valid_value(Get(row, "Days")) /\ days.res = "ok" /\ days.v > 0
            THEN "daysUntilDue" :> days.v ELSE EmptyDict)
        @@ (IF IBX_is_valid_value(Get(row, "Task Owner"))
            THEN "taskOwner" :> Strip(PyStr(row["Task Owner"])) ELSE EmptyDict)
        @@ (IF IBX_is_valid_value(Get(row, "Auto-Close")) /\ IsYes(row["Auto-Close"])
            THEN "autoClose" :> TRUE ELSE EmptyDict)

(* parse_actions of the workflow converter: [err, actions]; an empty       *)
(* actions stands for the None the function returns                        *)
IBX_parse_actions(row) ==
    LET has_task == IBX_is_valid_value(Get(row, "Task Type"))
                    \/ IBX_is_valid_value(Get(row, "Task Reason"))
    IN
    IF /\ has_task
       /\ IBX_is_valid_value(Get(row, "Days"))
       /\ IntOfFloat(row["Days"]).res = "OverflowError"
    THEN [err |-> "OverflowError", actions |-> EmptyDict]
    ELSE [err |-> "none",
          actions |->
            (IF IBX_is_valid_value(Get(row, "Triggered Letter"))
             THEN "generateLetters" :> << [letterName |-> Strip(PyStr(row["Triggered Letter"]))] >>
             ELSE EmptyDict)
            @@ (IF has_task THEN "createTask" :> IBX_create_task(row) ELSE EmptyDict)
            @@ (IF IBX_is_valid_value(Get(row, "Transfer")) /\ IsYes(row["Transfer"])
                THEN "transferOwnership" :>
                       [transferTo |-> IF IBX_is_valid_value(Get(row, "Task Owner"))
                                       THEN Strip(PyStr(row["Task Owner"]))
                                       ELSE <<"UNASSIGNED">>]
                ELSE EmptyDict)
            @@ (IF IBX_is_valid_value(Get(row, "Created Program"))
                THEN "createProgram" :> [programName |-> Strip(PyStr(row["Created Program"]))]
                ELSE EmptyDict)]

UpperMap ==
    ("Inpatient" :> "INPATIENT") @@ ("inpatient" :> "INPATIENT") @@
    ("Outpatient" :> "OUTPATIENT") @@ ("outpatient" :> "OUTPATIENT")

UpperTok(tok) == IF tok \in DOMAIN UpperMap THEN UpperMap[tok] ELSE tok

Upper(s) == [i \in DOMAIN s |-> UpperTok(s[i])]

IBXDefaultWeight == 100

(* One pass of the row loop of the workflow convert_excel_to_json:         *)
(* [outcome, rule], outcome "rule", "skip" or "exit1" (an exception that   *)
(* main catches before anything is written)                                *)
IBX_convert_row(row) ==
    LET name == Get(row, "Name")
        rule_summary == Get(row, "Rule Summary")
        fire == IntOfFloat(Get(row, "Fire Once"))
        a == IBX_parse_actions(row)
        req_type == Upper(Strip(PyStr(Get(row, "Request Type"))))
        trigger_events == parse_trigger_events(row)
    IN
    IF ~IBX_is_valid_value(name) \/ ~IBX_is_valid_value(rule_summary)
    THEN [outcome |-> "skip", rule |-> <<>>]
    ELSE IF IBX_is_valid_value(Get(row, "Fire Once")) /\ fire.res = "OverflowError"
    THEN [outcome |-> "exit1", rule |-> <<>>]
    ELSE IF a.err # "none"
    THEN [outcome |-> "exit1", rule |-> <<>>]
    ELSE [outcome |-> "rule",
          rule |->
            [ruleDesc |-> Strip(PyStr(name)),
             standardFieldCriteria |-> parse_rule_summary(PyStr(rule_summary)),
             isActive |-> TRUE,
             weight |-> IBXDefaultWeight]
            @@ (IF trigger_events # <<>> THEN "triggerEvents" :> trigger_events
                ELSE EmptyDict)
            @@ (IF /\ IBX_is_valid_value(Get(row, "Request Type"))
                   /\ req_type \in { <<"INPATIENT">>, <<"OUTPATIENT">> }
                THEN "requestTypeFilter" :> req_type ELSE EmptyDict)
            @@ (IF /\ IBX_is_valid_value(Get(row, "Fire Once"))
                   /\ fire.res = "ok" /\ fire.v = 1
                THEN "fireOnce" :> TRUE ELSE EmptyDict)
            @@ (IF a.actions # EmptyDict THEN "actions" :> a.actions ELSE EmptyDict)]

(***************************************************************************)
(* Input sheets.  A LUM row is two triplets and an action pair, padded     *)
(* with empty cells to the width of the sheet; a TAT or IBX row is a       *)
(* record of named cells.                                                  *)
(***************************************************************************)
T(s) == StrCell(s)

LUMFirstTriplets ==
    { <<T(<<"Urgency">>), T(<<"is", " ", "any", " ", "of">>), T(<<"STAT", "LF", "URGENT">>)>>,
      <<T(<<"Plan">>), T(<<"is", " ", "none", " ", "of">>), NaN>>,
      <<T(<<"Plan", " ">>), T(<<"is">>), T(<<" ">>)>>,
      <<T(<<"Bogus">>), T(<<"is">>), T(<<"PA">>)>>,
      <<T(<<"Urgency">>), T(<<"equals">>), T(<<"PA">>)>>,
      <<NaN, NaN, NaN>> }

LUMSecondTriplets ==
    { <<T(<<"Member", " ", "State">>), T(<<"is", " ", "not">>), T(<<"PA">>)>>,
      <<T(<<"Bogus">>), T(<<"is">>), T(<<"PA">>)>>,
      <<NaN, NaN, NaN>> }

LUMTails ==
    { <<NaN, NaN>>,
      <<T(<<"Reassign", " ", "to">>), T(<<"CARDIO">>)>> }

RECURSIVE Pad(_, _)
Pad(row, width) == IF Len(row) < width THEN Pad(Append(row, NaN), width) ELSE row

LUMWidths == {9, 15}

(* the narrow sheet carries no action pair: its rows end in empty cells *)
LUMRows(width) ==
    { Pad(t1 \o t2 \o tl, width) :
        t1 \in LUMFirstTriplets, t2 \in LUMSecondTriplets,
        tl \in IF width < DefaultActionCol THEN { <<NaN, NaN>> } ELSE LUMTails }

Tables(rows) == UNION { [1..n -> rows] : n \in 0..MaxRows }

LUMTables == UNION { Tables(LUMRows(w)) : w \in LUMWidths }

TATBase ==
    [DUE_DATE_AUTO_CALC_RULE_DESC |-> T(<<"Standard">>),
     ACTIVE |-> IntCell(1),
     WEIGHT |-> IntCell(50),
     DUE_DATE |-> NumCell(30),
     DUE_DATE_UNITS |-> T(<<"BD">>),
     DATE_TO_CALC_FROM |-> T(<<"RECEIPTDATE">>),
     DUE_DATE_TIME |-> T(<<"8", ":", "3", "0">>),
     SKIP_HOLIDAY_DATES |-> T(<<"2025-12-25", ",", " ", "*">>),
     OFFSET_VALUE |-> NaN,
     DATE_OPERATOR |-> T(<<"[NULL]">>),
     AUTO_EXTEND |-> IntCell(1),
     EXTEND_STATUS_RSN |-> T(<<"Pending">>),
     TX_TYPE |-> NaN, URGENCY |-> NaN, REVIEW_TYPE |-> NaN, REQUEST_TYPE |-> NaN,
     CLIENT |-> NaN, LOB |-> NaN, PLAN_TYPE |-> NaN, TX_SETTING |-> NaN,
     STATUS |-> NaN, STATUS_REASON |-> NaN]

TATDescCells == { T(<<"Standard">>), NaN }

(* <<WEIGHT, OFFSET_VALUE>> *)
TATNumericCells ==
    { <<IntCell(50), NumCell(20)>>, <<NaN, NaN>>, <<T(<<"3", ".", "0">>), NaN>>,
      <<T(<<"abc">>), NaN>>, <<IntCell(50), T(<<"x">>)>> }

TATUrgencyCells == { NaN, T(<<"STAT">>), T(<<"*">>) }

TATRows ==
    { [TATBase EXCEPT !["DUE_DATE_AUTO_CALC_RULE_DESC"] = d, !["WEIGHT"] = n[1],
                      !["OFFSET_VALUE"] = n[2], !["URGENCY"] = u] :
        d \in TATDescCells, n \in TATNumericCells, u \in TATUrgencyCells }

Without(row, col) == [c \in DOMAIN row \ {col} |-> row[c]]

(* sheets with and without the description column *)
TATTables ==
    Tables(TATRows)
    \cup Tables({ Without(r, "DUE_DATE_AUTO_CALC_RULE_DESC") : r \in TATRows })

IBXBase ==
    [Name |-> T(<<"Rule", " ", "A">>),
     RuleSummary |-> NaN,
     CreateRequest |-> T(<<"Yes">>),
     RequestType |-> T(<<"Inpatient">>),
     FireOnce |-> T(<<"1", ".", "0">>),
     TaskType |-> NaN,
     Days |-> NaN,
     Transfer |-> T(<<"Yes">>)]

IBXNameCells == { T(<<"Rule", " ", "A">>), NaN }

IBXSummaryCells ==
    { NaN,
      T(<<"Member", " ", "client", " ", "is", " ", "in", " ", "the", " ", "group", " ",
          "'", "All", " ", "Clients", "'", " ", "AND", " ",
          "Review", " ", "Type", " ", "is", " ", "'", "Retrospective", "'">>),
      T(<<"Bogus", " ", "is", " ", "'", "X", "'">>),
      T(<<"Urgent", " ", "requests">>) }

(* <<Task Type, Days>> *)
IBXTaskCells ==
    { <<NaN, NaN>>, <<T(<<"Review">>), NumCell(30)>>, <<T(<<"Review">>), T(<<"abc">>)>>,
      <<T(<<"Review">>), T(<<"inf">>)>> }

(* the cells of a sheet row under the column names of the sheet *)
IBXRow(name, summary, task) ==
    ("Name" :> name) @@ ("Rule Summary" :> summary) @@
    ("Create Request" :> IBXBase.CreateRequest) @@ ("Request Type" :> IBXBase.RequestType) @@
    ("Fire Once" :> IBXBase.FireOnce) @@ ("Task Type" :> task[1]) @@ ("Days" :> task[2]) @@
    ("Transfer" :> IBXBase.Transfer)

IBXRows ==
    { IBXRow(nm, sm, tk) : nm \in IBXNameCells, sm \in IBXSummaryCells, tk \in IBXTaskCells }

IBXTables == Tables(IBXRows)

Init ==
    /\ family \in {"LUM", "TAT", "IBX"}
    /\ table \in (CASE family = "LUM" -> LUMTables
                    [] family = "TAT" -> TATTables
                    [] family = "IBX" -> IBXTables)
    /\ pc = IF family = "LUM" THEN "start" ELSE "loop"
    /\ action_col_idx = -1
    /\ row_idx = 1
    /\ rules = <<>>
    /\ origin = <<>>
    /\ written = FALSE
    /\ out_rules = <<>>
    /\ errors = {}
    /\ skipped = 0
    /\ warned = FALSE
    /\ arg = <<>>
    /\ res = <<>>

(* LUM lines 249-281: locate the action column.  A sheet without rows      *)
(* fails at df.iloc[0, idx] with an IndexError that nothing catches.       *)
LUMLocate ==
    /\ family = "LUM" /\ pc = "start"
    /\ IF Len(table) = 0
       THEN /\ pc' = "exit1"
            /\ UNCHANGED <<action_col_idx, warned>>
       ELSE /\ pc' = "loop"
            /\ action_col_idx' = locate_action_col(table)
            /\ warned' = ~BoundaryFound(table)
    /\ UNCHANGED <<family, table, row_idx, rules, origin, written, out_rules, errors,
                   skipped, arg, res>>

(* LUM lines 283-332: one iteration of the row loop *)
LUMRow ==
    /\ family = "LUM" /\ pc = "loop" /\ row_idx <= Len(table)
    /\ LET r == LUM_convert_row(table[row_idx], row_idx, action_col_idx) IN
       /\ pc' = IF r.outcome = "exit1" THEN "exit1" ELSE "loop"
       /\ rules' = IF r.outcome = "rule" THEN AppendRule(rules, r.rule) ELSE rules
       /\ origin' = IF r.outcome = "rule" THEN Append(origin, row_idx) ELSE origin
       /\ row_idx' = IF r.outcome = "exit1" THEN row_idx ELSE row_idx + 1
    /\ UNCHANGED <<family, table, action_col_idx, written, out_rules, errors, skipped,
                   warned, arg, res>>

(* TAT lines 165-172: one iteration of the row loop.  The rule is appended *)
(* before the progress line is printed; the print raises for a ruleDesc    *)
(* that is no text, and the handler reports the row.                       *)
TATRow ==
    /\ family = "TAT" /\ pc = "loop" /\ row_idx <= Len(table)
    /\ LET r == convert_row_to_tat_rule(table[row_idx]) IN
       /\ rules' = IF r.err = "none" THEN AppendRule(rules, r.rule) ELSE rules
       /\ origin' = IF r.err = "none" THEN Append(origin, row_idx) ELSE origin
       /\ errors' = IF r.err # "none" \/ ~Subscriptable(r.rule.ruleDesc)
                    THEN errors \cup {row_idx} ELSE errors
    /\ row_idx' = row_idx + 1
    /\ UNCHANGED <<family, table, pc, action_col_idx, written, out_rules, skipped,
                   warned, arg, res>>

(* IBX lines 188-254: one iteration of the row loop *)
IBXRowStep ==
    /\ family = "IBX" /\ pc = "loop" /\ row_idx <= Len(table)
    /\ LET r == IBX_convert_row(table[row_idx]) IN
       /\ pc' = IF r.outcome = "exit1" THEN "exit1" ELSE "loop"
       /\ rules' = IF r.outcome = "rule" THEN AppendRule(rules, r.rule) ELSE rules
       /\ origin' = IF r.outcome = "rule" THEN Append(origin, row_idx) ELSE origin
       /\ skipped' = IF r.outcome = "skip" THEN skipped + 1 ELSE skipped
       /\ row_idx' = IF r.outcome = "exit1" THEN row_idx ELSE row_idx + 1
    /\ UNCHANGED <<family, table, action_col_idx, written, out_rules, errors, warned,
                   arg, res>>

(* LUM lines 334-347, TAT lines 174-186, IBX lines 256-276: the output     *)
(* file is written after the loop                                          *)
WriteOutput ==
    /\ family \in {"LUM", "TAT", "IBX"}
    /\ pc = "loop" /\ row_idx > Len(table)
    /\ written' = TRUE
    /\ out_rules' = rules
    /\ pc' = "exit0"
    /\ UNCHANGED <<family, table, action_col_idx, row_idx, rules, origin, errors, skipped,
                   warned, arg, res>>

Next == LUMLocate \/ LUMRow \/ TATRow \/ IBXRowStep \/ WriteOutput

Spec == Init /\ [][Next]_vars

(***************************************************************************)
(* The decoders on their own: a second specification applies one function  *)
(* to an argument drawn from a bounded set.                                *)
(***************************************************************************)
MaxTriplets == 2

MappedTriplets ==
    { <<T(f), T(o), v>> :
        f \in { <<"Urgency">>, <<"Outcome", " ", " ", "Reason">> },
        o \in { <<"is", " ", "any", " ", "of">>, <<"is", " ", "not">> },
        v \in { NaN, T(<<"PA">>), T(<<"STAT", "LF", " ", "URGENT", "LF">>), T(<<" ">>) } }

RECURSIVE Flatten(_)
Flatten(ts) == IF ts = <<>> THEN <<>> ELSE Head(ts) \o Flatten(Tail(ts))

(* N complete mapped triplets, then the action section: either the action  *)
(* boundary is 3N, or the cell at 3N is a label that stops the scan        *)
TripletArgs ==
    UNION { { [row |-> Flatten(ts) \o <<T(<<"Reassign", " ", "to">>), T(<<"CARDIO">>)>>,
               end_idx |-> 3 * n, n |-> n] : ts \in [1..n -> MappedTriplets] }
            \cup
            { [row |-> Flatten(ts) \o <<T(lbl), T(<<"Clinical">>), NaN, NaN>>,
               end_idx |-> 3 * n + 4, n |-> n] :
                 ts \in [1..n -> MappedTriplets],
                 lbl \in { <<"Task", " ", "Type">>, <<"ACTION">>, <<"Set", " ", "Task", " ", "Due", " ", "to">> } }
          : n \in 0..MaxTriplets }

CellTokens == {"*", "[NULL]", "(null)", " ", "LF", "STAT"}

MaxCellLen == 3

(* A missing cell or a text of 1..MaxCellLen tokens; read_excel reads an   *)
(* empty cell as missing, so the empty text is no argument                *)
CellArgs ==
    {NaN} \cup { T(s) : s \in UNION { [1..n -> CellTokens] : n \in 1..MaxCellLen } }

ClauseFields == DOMAIN IBX_FIELD_MAPPINGS

ClausePhrases ==
    { <<"is">>, <<"is", " ", "not">>, <<"is", " ", "in", " ", "the", " ", "group">>,
      <<"is", " ", "not", " ", "in", " ", "the", " ", "group">>,
      <<"Is", " ", "Not">>, <<"IS", " ", "NOT", " ", "in", " ", "the", " ", "group">> }

ClauseValues ==
    { <<"X">>, <<"All", " ", "Clients", " ", "(NO", " ", "BUPA)">>,
      <<"not", " ", "in", " ", "the", " ", "group">>, <<"is">>,
      <<"X", " ", "is", " ", "not", " ", "Y">>, <<"in", " ", "the", " ", "group", " ", "X">> }

ClauseBlanks == { <<" ">>, <<" ", " ">> }

(* "<field> <phrase> '<X>'" *)
ClauseArgs ==
    { [field |-> f, phrase |-> ph, x |-> x,
       text |-> f \o b \o ph \o b \o <<q>> \o x \o <<q>>] :
        f \in ClauseFields, ph \in ClausePhrases, x \in ClauseValues,
        b \in ClauseBlanks, q \in Quotes }

MaxClauses == 3

(* The clauses of a summary: decodable, of a field the mapping lacks, or   *)
(* without an operator phrase                                              *)
SummaryClauses ==
    { [kind |-> "good", field |-> <<"Urgency">>, phrase |-> <<"is">>, x |-> <<"STAT">>],
      [kind |-> "good", field |-> <<"Member", " ", "client">>,
       phrase |-> <<"is", " ", "not", " ", "in", " ", "the", " ", "group">>,
       x |-> <<"All", " ", "Clients">>],
      [kind |-> "unknown", field |-> <<"Bogus">>, phrase |-> <<"is">>, x |-> <<"X">>],
      [kind |-> "nophrase", field |-> <<"Urgent">>, phrase |-> <<>>, x |-> <<"requests">>] }

ClauseText(c) ==
    IF c.kind = "nophrase" THEN c.field \o <<" ">> \o c.x
    ELSE c.field \o <<" ">> \o c.phrase \o <<" ", "'">> \o c.x \o <<"'">>

(* 1..MaxClauses clauses joined by ' AND ' or ' and ' *)
SummaryArgs ==
    { [clauses |-> cs,
       text |-> Join([i \in DOMAIN cs |-> ClauseText(cs[i])], sep)] :
        cs \in UNION { [1..n -> SummaryClauses] : n \in 1..MaxClauses },
        sep \in { <<" ", "AND", " ">>, <<" ", "and", " ", " ">> } }

MaxSegments == 3

(* What follows the 'Task Type' cell of an action section: a value cell,   *)
(* an empty cell, or a header label with its value cell.  days is <<n>>    *)
(* for the first run of digits n of a due value, <<>> for a value without  *)
(* digits.                                                                 *)
TaskSegments ==
    { [kind |-> "value", cells |-> <<T(<<"Clinical">>)>>, text |-> <<"Clinical">>, days |-> <<>>],
      [kind |-> "value", cells |-> <<T(<<"Appeal">>)>>, text |-> <<"Appeal">>, days |-> <<>>],
      [kind |-> "empty", cells |-> <<NaN>>, text |-> <<>>, days |-> <<>>],
      [kind |-> "type", cells |-> <<T(TaskHeaderType), T(<<"Referral">>)>>,
       text |-> <<"Referral">>, days |-> <<>>],
      [kind |-> "reason", cells |-> <<T(TaskHeaderReason), T(<<"Escalate">>)>>,
       text |-> <<"Escalate">>, days |-> <<>>],
      [kind |-> "due", cells |-> <<T(TaskHeaderDue), T(<<"5", " ", "Business", " ", "Days">>)>>,
       text |-> <<>>, days |-> <<5>>],
      [kind |-> "due", cells |-> <<T(TaskHeaderDue), T(<<"0", " ", "days">>)>>,
       text |-> <<>>, days |-> <<0>>],
      [kind |-> "due", cells |-> <<T(TaskHeaderDue), T(<<"soon">>)>>,
       text |-> <<>>, days |-> <<>>],
      [kind |-> "due",
       cells |-> <<T(TaskHeaderDue), T(<<"in", " ", "1", "0", " ", "days", " ", "or", " ", "2">>)>>,
       text |-> <<>>, days |-> <<10>>] }

(* A row that is an action section: the 'Task Type' cell and 0..MaxSegments *)
(* segments                                                                *)
ActionArgs ==
    { [segs |-> sg,
       row |-> <<T(TaskHeaderType)>> \o Flatten([i \in DOMAIN sg |-> sg[i].cells])] :
        sg \in UNION { [1..n -> TaskSegments] : n \in 0..MaxSegments } }

(* Cells of the action columns of a workflow sheet, each with the value   *)
(* it stands for: val is the stripped text, <<>> for a cell that counts    *)
(* as absent; days is <<n>> for a day count n > 0, <<>> otherwise          *)
WorkflowTypeCells ==
    { [cell |-> NaN, val |-> <<>>],
      [cell |-> T(<<"Review">>), val |-> <<"Review">>],
      [cell |-> T(<<"(null)">>), val |-> <<>>] }

WorkflowReasonCells ==
    { [cell |-> NaN, val |-> <<>>],
      [cell |-> T(<<" ", "Overdue">>), val |-> <<"Overdue">>],
      [cell |-> T(<<" ">>), val |-> <<>>] }

WorkflowDaysCells ==
    { [cell |-> NaN, days |-> <<>>],
      [cell |-> IntCell(5), days |-> <<5>>],
      [cell |-> IntCell(0), days |-> <<>>],
      [cell |-> T(<<"3", ".", "0">>), days |-> <<3>>],
      [cell |-> T(<<"abc">>), days |-> <<>>],
      [cell |-> T(<<"inf">>), days |-> <<>>] }

WorkflowOwnerCells ==
    { [cell |-> NaN, val |-> <<>>], [cell |-> T(<<"Nurse">>), val |-> <<"Nurse">>] }

WorkflowTransferCells ==
    { [cell |-> NaN, yes |-> FALSE], [cell |-> T(<<"Yes">>), yes |-> TRUE],
      [cell |-> T(<<"No">>), yes |-> FALSE], [cell |-> T(<<"yes">>), yes |-> FALSE] }

WorkflowLetterCells ==
    { [cell |-> NaN, val |-> <<>>], [cell |-> T(<<"Denial">>), val |-> <<"Denial">>] }

(* Rows of a workflow sheet with a name and a summary, over the action     *)
(* columns                                                                 *)
WorkflowRowArgs ==
    { [type |-> ty, reason |-> rs, days |-> dy, owner |-> ow, transfer |-> tr, letter |-> lt,
       row |-> ("Name" :> IBXBase.Name) @@
               ("Rule Summary" :> T(<<"Urgency", " ", "is", " ", "'", "Urgent", "'">>)) @@
               ("Task Type" :> ty.cell) @@ ("Task Reason" :> rs.cell) @@
               ("Days" :> dy.cell) @@ ("Task Owner" :> ow.cell) @@
               ("Transfer" :> tr.cell) @@ ("Triggered Letter" :> lt.cell)] :
        ty \in WorkflowTypeCells, rs \in WorkflowReasonCells, dy \in WorkflowDaysCells,
        ow \in WorkflowOwnerCells, tr \in WorkflowTransferCells, lt \in WorkflowLetterCells }

MaxCriteria == 4

(* criteria as the LUM row loop builds them: every operator of the LUM     *)
(* table, one to three values                                              *)
DescCriteria ==
    { [field |-> "REQUEST_URGENCY", operator |-> "IN", values |-> << <<"Urgent">> >>],
      [field |-> "MEMBER_STATE", operator |-> "NOT_IN",
       values |-> << <<"PA">>, <<"NJ">>, <<"DE">> >>],
      [field |-> "REQUEST_TYPE", operator |-> "EQUALS",
       values |-> << <<"Inpatient">>, <<"Outpatient">> >>],
      [field |-> "REQUEST_URGENCY", operator |-> "NOT_EQUALS", values |-> << <<"Urgent">> >>],
      [field |-> "MEMBER_STATE", operator |-> "IN",
       values |-> << <<"PA">>, <<"NJ">>, <<"DE">> >>] }

DescActions ==
    { "departmentRouting" :> [departmentCode |-> <<"CARDIO">>],
      "createTask" :> [taskType |-> <<"Clinical">>,
                       taskReason |-> <<"Review", " ", "Required">>,
                       daysUntilDue |-> DefaultDaysUntilDue] }

(* 1..MaxCriteria criteria and the actions of a rule *)
DescArgs ==
    { [criteria |-> cs, actions |-> ac] :
        cs \in UNION { [1..n -> DescCriteria] : n \in 1..MaxCriteria },
        ac \in DescActions }

FnInit ==
    /\ family \in {"triplets", "cells", "summary", "summaries", "actions", "workflow_rows",
                  "descriptions"}
    /\ arg \in (CASE family = "triplets" -> TripletArgs
                  [] family = "cells" -> CellArgs
                  [] family = "summary" -> ClauseArgs
                  [] family = "summaries" -> SummaryArgs
                  [] family = "actions" -> ActionArgs
                  [] family = "workflow_rows" -> WorkflowRowArgs
                  [] family = "descriptions" -> DescArgs)
    /\ res = <<>>
    /\ pc = "start"
    /\ table = <<>>
    /\ action_col_idx = -1
    /\ row_idx = 1
    /\ rules = <<>>
    /\ origin = <<>>
    /\ written = FALSE
    /\ out_rules = <<>>
    /\ errors = {}
    /\ skipped = 0
    /\ warned = FALSE

FnUnchanged ==
    UNCHANGED <<family, table, action_col_idx, row_idx, rules, origin, written, out_rules,
                errors, skipped, warned, arg>>

ApplyTriplets ==
    /\ family = "triplets" /\ pc = "start"
    /\ res' = parse_criteria_triplets(arg.row, 0, arg.end_idx)
    /\ pc' = "done"
    /\ FnUnchanged

ApplyNormalizers ==
    /\ family = "cells" /\ pc = "start"
    /\ res' = [lum |-> split_multi_values(arg),
               tat |-> TAT_is_valid_value(arg),
               ibx |-> IBX_is_valid_value(arg)]
    /\ pc' = "done"
    /\ FnUnchanged

ApplySummary ==
    /\ family = "summary" /\ pc = "start"
    /\ res' = parse_rule_summary(arg.text)
    /\ pc' = "done"
    /\ FnUnchanged

ApplySummaryClauses ==
    /\ family = "summaries" /\ pc = "start"
    /\ res' = parse_rule_summary(arg.text)
    /\ pc' = "done"
    /\ FnUnchanged

ApplyActions ==
    /\ family = "actions" /\ pc = "start"
    /\ res' = LUM_parse_actions(arg.row, 0)
    /\ pc' = "done"
    /\ FnUnchanged

ApplyWorkflowRow ==
    /\ family = "workflow_rows" /\ pc = "start"
    /\ res' = IBX_convert_row(arg.row)
    /\ pc' = "done"
    /\ FnUnchanged

ApplyDescription ==
    /\ family = "descriptions" /\ pc = "start"
    /\ res' = generate_rule_description(arg.criteria, arg.actions)
    /\ pc' = "done"
    /\ FnUnchanged

FnNext ==
    \/ ApplyTriplets
    \/ ApplyNormalizers
    \/ ApplySummary
    \/ ApplySummaryClauses
    \/ ApplyActions
    \/ ApplyWorkflowRow
    \/ ApplyDescription

FnSpec == FnInit /\ [][FnNext]_vars

(***************************************************************************)
(* Properties.                                                             *)
(***************************************************************************)
Range(f) == { f[i] : i \in DOMAIN f }

ClosedOperators == {"EQUALS", "NOT_EQUALS", "IN", "NOT_IN"}

Processed == 1..(row_idx - 1)

(* The field-name cell of a triplet names a field the mapping lacks *)
FieldCellUnknown(c) ==
    LET f == normalize_field_name(c) IN
    f # <<>> /\ Lower(f) \notin CriteriaStopLabels /\ f \notin DOMAIN LUM_FIELD_MAPPINGS

(* The field-name cell of a triplet ends the scan *)
FieldCellStops(c) ==
    LET f == normalize_field_name(c) IN f = <<>> \/ Lower(f) \in CriteriaStopLabels

(* The 0-based positions of the triplets that lie wholly before the boundary *)
TripletStarts(row, boundary) ==
    { i \in 0..(Len(row) - 1) : i % 3 = 0 /\ i + 2 < boundary /\ i + 2 < Len(row) }

UnknownFieldAt(row, boundary) ==
    { i \in TripletStarts(row, boundary) : FieldCellUnknown(iloc(row, i)) }

ScanReaches(row, boundary, i) ==
    \A j \in TripletStarts(row, boundary) : j < i => ~FieldCellStops(iloc(row, j))

(* C1 as stated: a LUM row with an unmapped, non-empty, non-sentinel field *)
(* name in any of its triplets keeps the output file from being written.   *)
C1_AnyUnknownFieldAborts ==
    (family = "LUM" /\ written) =>
        \A r \in 1..Len(table) : UnknownFieldAt(table[r], action_col_idx) = {}

(* C1 amended: a LUM row with an unmapped, non-empty, non-sentinel field   *)
(* name in a triplet that the scan reaches (every earlier triplet of the   *)
(* row has a non-empty, non-sentinel field name) ends the run at that row  *)
(* with exit status 1; an aborted run writes no file, so no rule of any    *)
(* row is written.                                                         *)
C1_ReachedUnknownFieldAborts ==
    family = "LUM" =>
        /\ \A r \in 1..Len(table) :
              (pc \in {"loop", "exit0"} /\ r \in Processed) =>
                 \A i \in UnknownFieldAt(table[r], action_col_idx) :
                     ~ScanReaches(table[r], action_col_idx, i)
        /\ (pc = "exit1" => ~written /\ out_rules = <<>>)
        /\ (written => pc = "exit0")

(* An earlier row was decoded into a rule, then a row with a reached       *)
(* unknown field aborted the run.                                          *)
C1_Witness ==
    /\ family = "LUM" /\ pc = "exit1" /\ ~written
    /\ Len(rules) >= 1
    /\ \E i \in UnknownFieldAt(table[row_idx], action_col_idx) :
          ScanReaches(table[row_idx], action_col_idx, i)

(* C2: a row whose decoded criteria list is empty contributes no rule, in  *)
(* each converter: every rule of the list has at least one criterion.      *)
C2_NoRuleWithoutCriteria ==
    family \in {"LUM", "TAT", "IBX"} =>
        \A i \in DOMAIN rules : rules[i].standardFieldCriteria # <<>>

(* The values the claim expects of a value cell: nothing for a missing,    *)
(* empty or blank cell, else the trimmed non-empty lines                   *)
ExpectedValues(c) == IF isna(c) THEN <<>> ELSE SplitLines(PyStr(c), <<>>, <<>>)

RECURSIVE ExpectedCriteria(_, _, _)
ExpectedCriteria(row, k, n) ==
    IF k >= n THEN <<>>
    ELSE (IF ExpectedValues(iloc(row, 3 * k + 2)) # <<>>
          THEN << [operator |-> LUM_OPERATOR_MAPPINGS[normalize_field_name(iloc(row, 3 * k + 1))],
                   field |-> LUM_FIELD_MAPPINGS[normalize_field_name(iloc(row, 3 * k))],
                   values |-> ExpectedValues(iloc(row, 3 * k + 2))] >>
          ELSE <<>>)
         \o ExpectedCriteria(row, k + 1, n)

(* C3: on N complete mapped triplets followed by the action section, the   *)
(* scan returns the criteria of the triplets with a non-empty value, in    *)
(* order, and stops at index 3N.                                           *)
C3_TripletScanExact ==
    (family = "triplets" /\ pc = "done") =>
        /\ res.err = "none"
        /\ res.idx = 3 * arg.n
        /\ res.criteria = ExpectedCriteria(arg.row, 0, arg.n)

(* The cells the claim calls absent *)
SentinelCell(c) ==
    c.t = "str" /\ (c.s \in { <<"*">>, <<"[NULL]">>, <<"(null)">> } \/ Strip(c.s) = <<>>)

(* C4: every value normalizer treats '*', '[NULL]', '(null)', the empty    *)
(* text and a blank text as absent.                                        *)
C4_SentinelsAbsentEverywhere ==
    (family = "cells" /\ pc = "done" /\ SentinelCell(arg)) =>
        /\ res.lum = <<>>
        /\ ~res.tat
        /\ ~res.ibx

(* C5: a clause "<mapped field> <phrase> '<X>'" decodes to one criterion   *)
(* with the field's canonical name, the operator the table gives the whole *)
(* phrase, and the values [X].                                             *)
C5_LongestPhraseWins ==
    (family = "summary" /\ pc = "done") =>
        res = << [field |-> IBX_FIELD_MAPPINGS[arg.field],
                  operator |-> IBX_OPERATOR_MAPPINGS[Lower(arg.phrase)],
                  values |-> <<arg.x>>] >>

(* A clause ending in "is not in the group '<X>'" came out as NOT_IN [X]   *)
C5_Witness ==
    /\ family = "summary" /\ pc = "done"
    /\ arg.phrase = <<"is", " ", "not", " ", "in", " ", "the", " ", "group">>
    /\ arg.x = <<"not", " ", "in", " ", "the", " ", "group">>
    /\ Len(res) = 1
    /\ res[1].operator = "NOT_IN"
    /\ res[1].values = <<arg.x>>

(* C6: a numeric cell that does not parse, or is a float-formatted text,   *)
(* never drops the row and never aborts the run: every TAT row of a sheet  *)
(* that has the indexed columns yields its rule, and the IBX run does not  *)
(* abort.                                                                  *)
C6_NumericNeverDropsRow ==
    /\ family = "TAT" =>
          \A r \in Processed :
              TATRequiredCols \subseteq DOMAIN table[r] => r \in Range(origin)
    /\ family = "IBX" => pc # "exit1"

(* C7: under the fallback boundary the run does not abort for the missing  *)
(* boundary: an aborted fallback run stopped at an unmapped field or       *)
(* operator.                                                               *)
C7_FallbackNeverFatal ==
    (family = "LUM" /\ warned /\ pc = "exit1") =>
        parse_criteria_triplets(table[row_idx], 0, action_col_idx).err = "ValueError"

(* C8: a row without its name, summary or description yields no rule; in   *)
(* the TAT converter a row reported as an error is not among the rules.    *)
C8_ReportedRowNotEmitted ==
    /\ family = "TAT" => \A r \in errors : r \notin Range(origin)
    /\ family = "IBX" =>
          \A r \in Processed :
              (~IBX_is_valid_value(Get(table[r], "Name"))
               \/ ~IBX_is_valid_value(Get(table[r], "Rule Summary"))) => r \notin Range(origin)

(* The rule the converter of the family makes of row r *)
RuleOfRow(r) ==
    CASE family = "LUM" -> LUM_convert_row(table[r], r, action_col_idx).rule
      [] family = "TAT" -> convert_row_to_tat_rule(table[r]).rule
      [] family = "IBX" -> IBX_convert_row(table[r]).rule

IsPrefix(a, b) == Len(a) <= Len(b) /\ SubSeq(b, 1, Len(a)) = a

RulesInSourceOrder ==
    family \in {"LUM", "TAT", "IBX"} =>
        /\ Len(origin) = Len(rules)
        /\ \A i \in DOMAIN rules : origin[i] \in Processed /\ rules[i] = RuleOfRow(origin[i])
        /\ \A i, j \in DOMAIN rules : i < j => origin[i] < origin[j]
        /\ written => out_rules = rules

(* C9: after any prefix of the loop the rules are the rules of an          *)
(* increasing selection of the processed rows, one per row at most, and a  *)
(* step only appends.                                                      *)
C9_OrderPreserved == [](RulesInSourceOrder) /\ [][IsPrefix(rules, rules')]_vars

(* Two rows were converted and written *)
C9_Witness ==
    /\ family \in {"LUM", "TAT", "IBX"}
    /\ pc = "exit0" /\ written
    /\ Len(out_rules) = 2
    /\ out_rules[1] # out_rules[2]

CanonicalFields ==
    Range(LUM_FIELD_MAPPINGS) \cup Range(IBX_FIELD_MAPPINGS)
    \cup { TAT_FIELD_MAPPINGS[k][2] : k \in DOMAIN TAT_FIELD_MAPPINGS }

(* C10: every criterion of every rule carries an operator of the closed    *)
(* set, a canonical field and a non-empty values list.                     *)
C10_CriterionShape ==
    family \in {"LUM", "TAT", "IBX"} =>
        \A i \in DOMAIN rules :
            \A k \in DOMAIN rules[i].standardFieldCriteria :
                LET c == rules[i].standardFieldCriteria[k] IN
                /\ "operator" \in DOMAIN c
                /\ c.operator \in ClosedOperators
                /\ c.field \in CanonicalFields
                /\ c.values # <<>>

(* The criteria the decodable clauses of a summary stand for, in order *)
RECURSIVE ExpectedSummary(_)
ExpectedSummary(cs) ==
    IF cs = <<>> THEN <<>>
    ELSE (IF Head(cs).kind = "good"
          THEN << [field |-> IBX_FIELD_MAPPINGS[Head(cs).field],
                   operator |-> IBX_OPERATOR_MAPPINGS[Head(cs).phrase],
                   values |-> <<Head(cs).x>>] >>
          ELSE <<>>)
         \o ExpectedSummary(Tail(cs))

(* C11: parse_rule_summary drops a clause without an operator phrase or    *)
(* with an unmapped field, and still returns the criterion of every        *)
(* decodable clause of the summary, in clause order.                       *)
C11_LenientSummary ==
    (family = "summaries" /\ pc = "done") => res = ExpectedSummary(arg.clauses)

(* A decodable clause, an unknown field and a second decodable clause gave *)
(* two criteria                                                            *)
C11_Witness ==
    /\ family = "summaries" /\ pc = "done"
    /\ Len(arg.clauses) = 3
    /\ arg.clauses[1].kind = "good" /\ arg.clauses[2].kind = "unknown"
    /\ arg.clauses[3].kind = "good" /\ arg.clauses[1] # arg.clauses[3]
    /\ Len(res) = 2

(* 'LUM' and the decimal digits of n behind as many zeros as make three    *)
(* characters                                                              *)
PaddedCode(n) ==
    <<"LUM">> \o [i \in 1..(CodeWidth - Len(DigitsOf(n))) |-> "0"] \o DigitsOf(n)

(* The number a code spells behind its prefix *)
CodeNumber(code) == DigitsValue(Tail(code))

(* C12: the code of every LUM rule is 'LUM' and the 1-based number of its  *)
(* source row padded with zeros to width 3; the codes are distinct and     *)
(* increase along the output, a skipped row leaving a gap.                 *)
C12_CodeIsRowNumber ==
    family = "LUM" =>
        /\ \A i \in DOMAIN rules : rules[i].code = PaddedCode(origin[i])
        /\ \A i, j \in DOMAIN rules :
              i < j => /\ rules[i].code # rules[j].code
                       /\ CodeNumber(rules[i].code) < CodeNumber(rules[j].code)

(* The first row was skipped and the rule of the second row was written    *)
(* as LUM002                                                               *)
C12_Witness ==
    /\ family = "LUM" /\ written
    /\ origin = <<2>>
    /\ out_rules[1].code = <<"LUM", "0", "0", "2">>

(* The task type and reason the segments stand for: a labelled value sets  *)
(* its field, a value cell goes to the type if that is unset, else to the  *)
(* reason if that is unset                                                 *)
RECURSIVE ExpectedTask(_, _, _)
ExpectedTask(segs, type, reason) ==
    IF segs = <<>> THEN [type |-> type, reason |-> reason]
    ELSE LET g == Head(segs) IN
         CASE g.kind = "type" -> ExpectedTask(Tail(segs), g.text, reason)
           [] g.kind = "reason" -> ExpectedTask(Tail(segs), type, g.text)
           [] g.kind = "value" /\ type = <<>> -> ExpectedTask(Tail(segs), g.text, reason)
           [] g.kind = "value" /\ type # <<>> /\ reason = <<>> ->
                  ExpectedTask(Tail(segs), type, g.text)
           [] OTHER -> ExpectedTask(Tail(segs), type, reason)

(* C13: after a 'Task Type' action cell every value cell is assigned to    *)
(* the task type if unset, else to the task reason if unset, wherever it   *)
(* sits (the last cell included); createTask is emitted exactly when a     *)
(* task type was resolved, the reason defaulting to 'Review Required'.     *)
C13_PositionalAssignment ==
    (family = "actions" /\ pc = "done") =>
        LET e == ExpectedTask(arg.segs, <<>>, <<>>) IN
        /\ res.err = "none"
        /\ ("createTask" \in DOMAIN res.actions) <=> (e.type # <<>>)
        /\ e.type # <<>> =>
              /\ res.actions["createTask"].taskType = e.type
              /\ res.actions["createTask"].taskReason =
                    (IF e.reason # <<>> THEN e.reason ELSE <<"Review", " ", "Required">>)

(* The 'Set Task Due to' segments of a row *)
DueSegments(segs) == { i \in DOMAIN segs : segs[i].kind = "due" }

(* C14: when createTask is emitted and the row has one 'Set Task Due to'   *)
(* label whose value holds digits, daysUntilDue is the number of the first *)
(* run of digits, 0 included; without such a label it is 3.                *)
C14_DaysFromFirstDigits ==
    (/\ family = "actions" /\ pc = "done"
     /\ "createTask" \in DOMAIN res.actions
     /\ Cardinality(DueSegments(arg.segs)) <= 1) =>
        LET withDigits == { i \in DueSegments(arg.segs) : arg.segs[i].days # <<>> } IN
        res.actions["createTask"].daysUntilDue =
            (IF withDigits = {} THEN 3
             ELSE arg.segs[CHOOSE i \in withDigits : TRUE].days[1])

(* The actions of an emitted workflow rule, empty when the rule has no     *)
(* 'actions' key                                                           *)
RuleActions(rule) == IF "actions" \in DOMAIN rule THEN rule["actions"] ELSE EmptyDict

ClaimedOperatorText(op) ==
    IF op \in {"NOT_IN", "NOT_EQUALS"} THEN <<"is", " ", "not">> ELSE <<"is">>

(* the first two values, and '...' exactly when there are more *)
ClaimedValuesText(v) ==
    CASE Len(v) = 0 -> <<>>
      [] Len(v) = 1 -> v[1]
      [] Len(v) = 2 -> v[1] \o <<",", " ">> \o v[2]
      [] OTHER -> v[1] \o <<",", " ">> \o v[2] \o <<".", ".", ".">>

ClaimedPart(c) ==
    TitleCase(c.field) \o <<" ">> \o ClaimedOperatorText(c.operator) \o <<" ">>
    \o ClaimedValuesText(c.values)

(* the first three criteria, joined by '; ' *)
ClaimedCriteriaSummary(cs) ==
    CASE Len(cs) = 1 -> ClaimedPart(cs[1])
      [] Len(cs) = 2 -> ClaimedPart(cs[1]) \o <<";", " ">> \o ClaimedPart(cs[2])
      [] OTHER -> ClaimedPart(cs[1]) \o <<";", " ">> \o ClaimedPart(cs[2])
                  \o <<";", " ">> \o ClaimedPart(cs[3])

(* C16: the synthesized description shows the first 3 criteria at most,    *)
(* each with its first 2 values at most and '...' exactly when it has      *)
(* more, with 'is not' for NOT_IN and NOT_EQUALS and 'is' for IN and       *)
(* EQUALS.                                                                 *)
C16_DescriptionText ==
    (family = "descriptions" /\ pc = "done") =>
        LET n == Len(ClaimedCriteriaSummary(arg.criteria)) IN
        /\ Len(res) > n
        /\ SubSeq(res, 1, n) = ClaimedCriteriaSummary(arg.criteria)
        /\ res[n + 1] = " " /\ res[n + 2] = "ARROW"

====
